---- MODULE Spec2Model ----
(***************************************************************************)
(* A model of routee-compass: the graph store construction (the TomTom     *)
(* edge list and the core edge loader), the distance and speed-table       *)
(* traversal models, the cost estimators, the label-setting A* search and  *)
(* the search app's batch.                                                 *)
(*                                                                         *)
(* Quantities are fixed-point integers: a value x of a state variable, a   *)
(* cost or a unit-tagged quantity is held as x * Scale (thousandths of the *)
(* unit), so that unit conversions are exact and are not the identity.     *)
(***************************************************************************)
EXTENDS Integers, Sequences, FiniteSets, TLC

VARIABLES
    \* ---- graph construction (TomTomEdgeList / EdgeLoader) ----
    ld_kind,          \* which loader runs: "tomtom" or "core"
    n_edges,          \* c.n_edges
    n_vertices,       \* c.n_vertices
    rows,             \* the rows of the edge table, in file order
    row_pos,          \* number of rows consumed so far
    edges,            \* Vec<Edge>
    adj,              \* Vec<HashMap<EdgeId, VertexId>>, index v is adj[v + 1]
    rev,              \* Vec<HashMap<EdgeId, VertexId>>
    missing_vertices, \* HashSet<VertexId> of the core loader's callback
    ld_status         \* "reading", "ok", "AdjacencyVertexMissing", "panic"

VARIABLES
    \* ---- traversal models (DistanceModel / SpeedTraversalModel) ----
    tm_kind,        \* "distance" or "speed"
    tm_engine,      \* the model's configuration (units, speed table, max speed)
    tm_state_model, \* StateModel: the feature names, in index order
    tm_start,       \* the state vector the chain of traversals started from
    tm_state,       \* the state vector carried along the chain
    tm_input,       \* the vector handed to the last call, as it was before it
    tm_edge,        \* the edge handed to the last call
    tm_path,        \* the edges traversed with success, in order
    tm_costs,       \* per success: the total_cost returned (distance model),
                    \* the amount added to "time" (speed model)
    tm_result       \* "none", "Ok" or the error of the last call

VARIABLES
    \* ---- one search of the search app (A*) ----
    sr_graph,       \* the graph store: [edges, n_vertices]
    sr_engine,      \* the speed-table traversal model's engine
    sr_hkind,       \* the cost estimator: "model" (estimate_traversal) or "app"
    sr_frontier_model, \* TruckRestrictionFrontierModel: [lookup, truck_parameters]
    sr_origin,      \* origin vertex
    sr_destination, \* destination vertex
    sr_frontier,    \* the open labels
    sr_seq,         \* labels pushed so far (insertion order)
    sr_best_g,      \* VertexId -> best known g-cost
    sr_solution,    \* VertexId -> SearchTreeBranch
    sr_status,      \* "running", "found", "NoPathExists", "ReconstructionMissingVertex"
    sr_route        \* the route of a search that found the destination

VARIABLES
    \* ---- the search app's batch (run_edge_oriented and main) ----
    queries,        \* the batch: (origin edge id, destination edge id) pairs
    query_pos,      \* queries answered so far
    query_results,  \* per answered query: its SearchResult or its error
    results,        \* what run_edge_oriented handed to main: "none", Ok or Err
    app_log,        \* the lines main logged, one per result
    app_status      \* "searching", "reporting", "Ok", "Err"

VARIABLES
    \* ---- one call of the truck restriction frontier model ----
    fm_model,         \* TruckRestrictionFrontierModel: [lookup, truck_parameters]
    fm_edge,          \* the edge asked about
    fm_state,         \* the traversal state handed in
    fm_previous_edge, \* Option<&Edge>: [some |-> FALSE] or [some |-> TRUE, edge]
    fm_result         \* [returned |-> FALSE], or the Result<bool, _> returned

VARIABLES
    \* ---- TomTomGraphConfig: sizes and the readers of the edge list ----
    cf_edge_list_csv,   \* file name of the edge list, a sequence of characters
    cf_vertex_list_csv, \* file name of the vertex list
    cf_n_edges,         \* Option<usize>: [some |-> FALSE] or [some |-> TRUE, n]
    cf_n_vertices,      \* Option<usize>
    cf_edge_lines,      \* lines of the edge list file, header included
    cf_vertex_lines,    \* lines of the vertex list file
    cf_build,           \* "debug" (overflow checks on) or "release" (wrapping)
    cf_sizes,           \* [returned |-> FALSE], or how read_file_sizes ended
    cf_count_decoder,   \* how the counting pass read the edge list
    cf_load_decoder     \* how the loading pass read the edge list

VARIABLES
    \* ---- one call of compute_headings_angle ----
    hd_a,     \* EdgeHeading of the edge left
    hd_b,     \* EdgeHeading of the edge entered
    hd_angle  \* [returned |-> FALSE], or the i16 returned

ldvars == <<ld_kind, n_edges, n_vertices, rows, row_pos, edges, adj, rev,
            missing_vertices, ld_status>>

tmvars == <<tm_kind, tm_engine, tm_state_model, tm_start, tm_state, tm_input,
            tm_edge, tm_path, tm_costs, tm_result>>

srvars == <<sr_graph, sr_engine, sr_hkind, sr_frontier_model, sr_origin,
            sr_destination, sr_frontier, sr_seq, sr_best_g, sr_solution, sr_status,
            sr_route>>

btvars == <<queries, query_pos, query_results, results, app_log, app_status>>

fmvars == <<fm_model, fm_edge, fm_state, fm_previous_edge, fm_result>>

cfvars == <<cf_edge_list_csv, cf_vertex_list_csv, cf_n_edges, cf_n_vertices,
            cf_edge_lines, cf_vertex_lines, cf_build, cf_sizes, cf_count_decoder,
            cf_load_decoder>>

hdvars == <<hd_a, hd_b, hd_angle>>

vars == <<ldvars, tmvars, srvars, btvars, fmvars, cfvars, hdvars>>

\* What the actions of one part leave alone.
nonLoader == <<tmvars, srvars, btvars, fmvars, cfvars, hdvars>>
nonTraversal == <<ldvars, srvars, btvars, fmvars, cfvars, hdvars>>
nonSearch == <<ldvars, tmvars, btvars, fmvars, cfvars, hdvars>>
nonSearchApp == <<ldvars, tmvars, fmvars, cfvars, hdvars>>
nonFrontier == <<ldvars, tmvars, srvars, btvars, cfvars, hdvars>>
nonConfig == <<ldvars, tmvars, srvars, btvars, fmvars, hdvars>>
nonHeading == <<ldvars, tmvars, srvars, btvars, fmvars, cfvars>>

----------------------------------------------------------------------------
\* Bounds of the graph construction model.
MaxRows == 2
MaxEdgeId == 1
MaxVertexId == 2

----------------------------------------------------------------------------
\* Edge (compass-core/src/model/property/edge.rs); road_class and grade play
\* no part in construction or in the modelled traversal models.
Edge(id, src, dst, dist) ==
    [edge_id |-> id, src_vertex_id |-> src, dst_vertex_id |-> dst, distance |-> dist]

\* #[derive(Default)] on Edge: every field is its type's default.
EdgeDefault == Edge(0, 0, 0, 0)

\* HashMap::insert: the new value replaces an older one under the same key.
MapInsert(m, k, v) == [x \in (DOMAIN m) \cup {k} |-> IF x = k THEN v ELSE m[x]]

EmptyMap == [x \in {} |-> 0]

\* vec![x; n]
VecOf(x, n) == [i \in 1..n |-> x]

EdgeRows == {Edge(id, s, d, 100) : id \in 0..MaxEdgeId, s \in 0..MaxVertexId,
                                   d \in 0..MaxVertexId}

RECURSIVE SeqsUpTo(_, _)
SeqsUpTo(S, n) ==
    IF n = 0 THEN {<<>>}
    ELSE LET shorter == SeqsUpTo(S, n - 1)
         IN shorter \cup {Append(s, x) : s \in {t \in shorter : Len(t) = n - 1}, x \in S}

LoaderInit ==
    /\ ld_kind \in {"tomtom", "core"}
    /\ n_edges \in 0..(MaxRows + 1)
    /\ n_vertices \in 1..(MaxVertexId + 1)
    /\ rows \in SeqsUpTo(EdgeRows, MaxRows)
    /\ row_pos = 0
    \* tomtom pre-fills the vector with defaults; the core loader's vector
    \* is filled by vec_from_csv, row by row
    /\ edges = IF ld_kind = "tomtom" THEN VecOf(EdgeDefault, n_edges) ELSE <<>>
    /\ adj = VecOf(EmptyMap, n_vertices)
    /\ rev = VecOf(EmptyMap, n_vertices)
    /\ missing_vertices = {}
    /\ ld_status = "reading"

\* One iteration of the row loop of TomTomEdgeList::try_from.
TomTomReadRow ==
    /\ ld_kind = "tomtom"
    /\ ld_status = "reading"
    /\ row_pos < Len(rows)
    /\ LET edge == rows[row_pos + 1]
           src == edge.src_vertex_id
           dst == edge.dst_vertex_id
       IN IF edge.edge_id >= n_edges
          THEN \* edges[edge.edge_id.0 as usize] = edge: index out of bounds
               /\ ld_status' = "panic"
               /\ UNCHANGED <<edges, adj, rev, row_pos>>
          ELSE /\ edges' = [edges EXCEPT ![edge.edge_id + 1] = edge]
               /\ IF src >= n_vertices
                  THEN /\ ld_status' = "AdjacencyVertexMissing"
                       /\ UNCHANGED <<adj, rev, row_pos>>
                  ELSE /\ adj' = [adj EXCEPT ![src + 1] =
                                     MapInsert(@, edge.edge_id, dst)]
                       /\ IF dst >= n_vertices
                          THEN /\ ld_status' = "AdjacencyVertexMissing"
                               /\ UNCHANGED <<rev, row_pos>>
                          ELSE /\ rev' = [rev EXCEPT ![dst + 1] =
                                             MapInsert(@, edge.edge_id, src)]
                               /\ row_pos' = row_pos + 1
                               /\ UNCHANGED ld_status
    /\ UNCHANGED <<ld_kind, n_edges, n_vertices, rows, missing_vertices>>
    /\ UNCHANGED nonLoader

\* The rows are exhausted: Ok(TomTomEdgeList { edges, adj, rev }).
TomTomFinish ==
    /\ ld_kind = "tomtom"
    /\ ld_status = "reading"
    /\ row_pos = Len(rows)
    /\ ld_status' = "ok"
    /\ UNCHANGED <<ld_kind, n_edges, n_vertices, rows, row_pos, edges, adj, rev,
                   missing_vertices>>
    /\ UNCHANGED nonLoader

\* One row of read_utils::vec_from_csv under EdgeLoader::try_from: the row
\* callback `cb` runs on the row, and the row is pushed onto the result.
EdgeLoaderReadRow ==
    /\ ld_kind = "core"
    /\ ld_status = "reading"
    /\ row_pos < Len(rows)
    /\ LET edge == rows[row_pos + 1]
           src == edge.src_vertex_id
           dst == edge.dst_vertex_id
       IN /\ adj' = IF src >= n_vertices THEN adj
                    ELSE [adj EXCEPT ![src + 1] = MapInsert(@, edge.edge_id, dst)]
          /\ rev' = IF dst >= n_vertices THEN rev
                    ELSE [rev EXCEPT ![dst + 1] = MapInsert(@, edge.edge_id, src)]
          /\ missing_vertices' = missing_vertices
                \cup (IF src >= n_vertices THEN {src} ELSE {})
                \cup (IF dst >= n_vertices THEN {dst} ELSE {})
          /\ edges' = Append(edges, edge)
    /\ row_pos' = row_pos + 1
    /\ UNCHANGED <<ld_kind, n_edges, n_vertices, rows, ld_status>>
    /\ UNCHANGED nonLoader

\* The rows are exhausted: Ok(EdgeLoader { edges, adj, rev }); the set
\* missing_vertices is dropped.
EdgeLoaderFinish ==
    /\ ld_kind = "core"
    /\ ld_status = "reading"
    /\ row_pos = Len(rows)
    /\ ld_status' = "ok"
    /\ UNCHANGED <<ld_kind, n_edges, n_vertices, rows, row_pos, edges, adj, rev,
                   missing_vertices>>
    /\ UNCHANGED nonLoader

\* No graph is under construction.
LoaderOff ==
    /\ ld_kind = "off"
    /\ n_edges = 0
    /\ n_vertices = 0
    /\ rows = <<>>
    /\ row_pos = 0
    /\ edges = <<>>
    /\ adj = <<>>
    /\ rev = <<>>
    /\ missing_vertices = {}
    /\ ld_status = "off"

----------------------------------------------------------------------------
\* Traversal models.

\* Bounds of the traversal model runs.
MaxTrav == 2
MaxTableLen == 2

\* One unit of a stored quantity, in the model's fixed point.
Scale == 10 * 10 * 10

\* BASE_DISTANCE_UNIT (crate::util::unit): Edge.distance is held in it.
BASE_DISTANCE_UNIT == "meters"

MetersPerKilometer == 10 * 10 * 10

\* DistanceUnit::convert(value, target): `value`, a fixed-point quantity of
\* unit `from`, expressed in unit `to`.
DistanceConvert(from, value, to) ==
    IF from = to THEN value
    ELSE IF from = "meters" /\ to = "kilometers" THEN value \div MetersPerKilometer
    ELSE value * MetersPerKilometer

\* Edge.distance as a quantity of the base unit.
EdgeLength(edge) == edge.distance * Scale

\* DistanceModel::initial_state: vec![StateVar(0.0)]
DistanceInitialState == <<0>>

\* A slip in traversal_cost: component 0 is set to the edge's distance, not
\* advanced by it.
DistanceModelTraversalCostOverwrite(distance_unit, edge, state) ==
    LET distance == DistanceConvert(BASE_DISTANCE_UNIT, EdgeLength(edge), distance_unit)
    IN [total_cost |-> distance,
        updated_state |-> [state EXCEPT ![1] = distance]]

\* DistanceModel::traversal_cost: the input vector is borrowed, the result
\* carries a clone with component 0 advanced.
DistanceModelTraversalCost(distance_unit, edge, state) ==
    LET distance == DistanceConvert(BASE_DISTANCE_UNIT, EdgeLength(edge), distance_unit)
    IN [total_cost |-> distance,
        updated_state |-> [state EXCEPT ![1] = state[1] + distance]]

\* get_speed: speed_table.get(edge_id) or MissingIdInTabularCostFunction.
MissingSpeed == [ok |-> FALSE, err |-> "MissingIdInTabularCostFunction"]

\* A slip in get_speed: the first entry of the table, whatever the edge.
GetSpeedOfFirstEdge(speed_table, edge_id) ==
    IF edge_id < Len(speed_table)
    THEN [ok |-> TRUE, speed |-> speed_table[1]]
    ELSE MissingSpeed

GetSpeed(speed_table, edge_id) ==
    IF edge_id < Len(speed_table)
    THEN [ok |-> TRUE, speed |-> speed_table[edge_id + 1]]
    ELSE MissingSpeed

\* How many of a time unit make one hour.
TimeUnitsPerHour(time_unit) ==
    CASE time_unit = "hours" -> 1
      [] time_unit = "minutes" -> 60
      [] time_unit = "seconds" -> 3600
      [] time_unit = "milliseconds" -> 3600000

\* Time::create(speed, speed_unit, distance, distance_unit, time_unit): the
\* time to cover `distance` at `speed` (kilometers per hour), in `time_unit`;
\* an error when the speed or the distance is not positive.
TimeCreate(speed, distance, distance_unit, time_unit) ==
    LET meters == DistanceConvert(distance_unit, distance, "meters") \div Scale
    IN IF speed <= 0 \/ distance <= 0
       THEN [ok |-> FALSE, err |-> "UnitError"]
       ELSE [ok |-> TRUE, time |-> (meters * TimeUnitsPerHour(time_unit)) \div speed]

\* StateModel: index of a feature name, 0 when the schema has no such feature.
FeatureIndex(state_model, name) ==
    IF \E i \in 1..Len(state_model) : state_model[i] = name
    THEN CHOOSE i \in 1..Len(state_model) : state_model[i] = name
    ELSE 0

\* StateModel::add_time(state, name, time, time_unit): adds to the named
\* feature; the feature is stored in the unit the time is given in.
AddTime(state_model, state, name, time) ==
    LET i == FeatureIndex(state_model, name)
    IN IF i = 0 THEN [result |-> "StateModelError", state |-> state]
       ELSE [result |-> "Ok", state |-> [state EXCEPT ![i] = state[i] + time]]

\* StateModel::initial_state: every feature's configured initial value (0.0).
StateModelInitialState(state_model) == [i \in 1..Len(state_model) |-> 0]

\* A traverse_edge that resets the state vector when the speed lookup fails.
SpeedTraverseEdgeResetOnError(engine, edge, state, state_model) ==
    LET distance == DistanceConvert(BASE_DISTANCE_UNIT, EdgeLength(edge),
                                    engine.distance_unit)
        speed == GetSpeed(engine.speed_table, edge.edge_id)
    IN IF ~speed.ok
       THEN [result |-> speed.err, state |-> StateModelInitialState(state_model)]
       ELSE LET edge_time == TimeCreate(speed.speed, distance, engine.distance_unit,
                                        engine.time_unit)
            IN IF ~edge_time.ok THEN [result |-> edge_time.err, state |-> state]
               ELSE AddTime(state_model, state, "time", edge_time.time)

\* SpeedTraversalModel::traverse_edge: `state` is mutated in place, the
\* outcome is the call's result and the vector as the call leaves it.
SpeedTraverseEdge(engine, edge, state, state_model) ==
    LET distance == DistanceConvert(BASE_DISTANCE_UNIT, EdgeLength(edge),
                                    engine.distance_unit)
        speed == GetSpeed(engine.speed_table, edge.edge_id)
    IN IF ~speed.ok THEN [result |-> speed.err, state |-> state]
       ELSE LET edge_time == TimeCreate(speed.speed, distance, engine.distance_unit,
                                        engine.time_unit)
            IN IF ~edge_time.ok THEN [result |-> edge_time.err, state |-> state]
               ELSE AddTime(state_model, state, "time", edge_time.time)

RECURSIVE SeqMax(_)
SeqMax(s) ==
    IF Len(s) = 1 THEN s[1]
    ELSE LET m == SeqMax(Tail(s)) IN IF s[1] > m THEN s[1] ELSE m

\* SpeedTraversalEngine: the speed table with its units; max_speed is the
\* largest speed of the table.
SpeedTraversalEngine(speed_table, distance_unit, time_unit) ==
    [speed_table |-> speed_table, distance_unit |-> distance_unit,
     time_unit |-> time_unit, max_speed |-> SeqMax(speed_table)]

NoEngine == [distance_unit |-> BASE_DISTANCE_UNIT]

TravDistances == {-100, 0, 100, 200}
TravSpeeds == {10, 20}
TravEdges == {Edge(id, 0, 1, d) : id \in 0..MaxTableLen, d \in TravDistances}
SpeedTables == SeqsUpTo(TravSpeeds, MaxTableLen) \ {<<>>}

TravInit ==
    /\ tm_kind \in {"distance", "speed"}
    /\ IF tm_kind = "distance"
       THEN /\ tm_engine \in {[distance_unit |-> u] : u \in {"meters", "kilometers"}}
            /\ tm_state_model = <<"distance">>
            \* initial_state(), or a longer vector of a composite state
            /\ tm_start \in {DistanceInitialState, <<0, 7000>>}
       ELSE /\ tm_engine \in {SpeedTraversalEngine(t, u, tu) :
                                t \in SpeedTables, u \in {"meters", "kilometers"},
                                tu \in {"seconds", "milliseconds"}}
            /\ tm_state_model = <<"distance", "time">>
            /\ tm_start = StateModelInitialState(tm_state_model)
    /\ tm_state = tm_start
    /\ tm_input = tm_start
    /\ tm_edge = EdgeDefault
    /\ tm_path = <<>>
    /\ tm_costs = <<>>
    /\ tm_result = "none"

\* The caller traverses one more edge with the distance model and feeds the
\* result state to the next call.
DistanceTraversalCostCall ==
    /\ tm_kind = "distance"
    /\ Len(tm_path) < MaxTrav
    /\ \E edge \in TravEdges :
         LET r == DistanceModelTraversalCost(tm_engine.distance_unit, edge, tm_state)
         IN /\ tm_input' = tm_state
            /\ tm_edge' = edge
            /\ tm_state' = r.updated_state
            /\ tm_costs' = Append(tm_costs, r.total_cost)
            /\ tm_path' = Append(tm_path, edge)
            /\ tm_result' = "Ok"
    /\ UNCHANGED <<tm_kind, tm_engine, tm_state_model, tm_start>>
    /\ UNCHANGED nonTraversal

\* The caller traverses one more edge with the speed-table model.
SpeedTraverseEdgeCall ==
    /\ tm_kind = "speed"
    /\ Len(tm_path) < MaxTrav
    /\ \E edge \in TravEdges :
         LET r == SpeedTraverseEdge(tm_engine, edge, tm_state, tm_state_model)
             time == FeatureIndex(tm_state_model, "time")
         IN /\ tm_input' = tm_state
            /\ tm_edge' = edge
            /\ tm_state' = r.state
            /\ tm_result' = r.result
            /\ tm_path' = IF r.result = "Ok" THEN Append(tm_path, edge) ELSE tm_path
            \* the caller's record of what the traversal added to "time"
            /\ tm_costs' = IF r.result = "Ok"
                            THEN Append(tm_costs, r.state[time] - tm_state[time])
                            ELSE tm_costs
    /\ UNCHANGED <<tm_kind, tm_engine, tm_state_model, tm_start>>
    /\ UNCHANGED nonTraversal

\* No traversal model is being driven.
TravOff ==
    /\ tm_kind = "off"
    /\ tm_engine = NoEngine
    /\ tm_state_model = <<>>
    /\ tm_start = <<>>
    /\ tm_state = <<>>
    /\ tm_input = <<>>
    /\ tm_edge = EdgeDefault
    /\ tm_path = <<>>
    /\ tm_costs = <<>>
    /\ tm_result = "none"

----------------------------------------------------------------------------
\* Cost estimators.

Abs(x) == IF x < 0 THEN -x ELSE x

\* Vertex: the model's vertices lie on the equator, vertex v at v steps of
\* longitude.
Vertex(v) == [vertex_id |-> v, coordinate |-> [x |-> v, y |-> 0]]

\* The great-circle length of one step of longitude on the equator, meters.
MetersPerStep == 4 * 100

\* haversine::coord_distance(src, dst, distance_unit): along the equator the
\* great-circle distance is the difference of the longitudes.
CoordDistance(src, dst, distance_unit) ==
    DistanceConvert("meters", Abs(src.x - dst.x) * MetersPerStep * Scale, distance_unit)

\* SpeedTraversalModel::estimate_traversal: a zero distance returns Ok and
\* leaves the state; else the time at max_speed is added to "time".
SpeedEstimateTraversal(engine, src, dst, state, state_model) ==
    LET distance == CoordDistance(src.coordinate, dst.coordinate, engine.distance_unit)
    IN IF distance = 0 THEN [result |-> "Ok", state |-> state]
       ELSE LET estimated_time == TimeCreate(engine.max_speed, distance,
                                             engine.distance_unit, engine.time_unit)
            IN IF ~estimated_time.ok
               THEN [result |-> estimated_time.err, state |-> state]
               ELSE AddTime(state_model, state, "time", estimated_time.time)

\* main: Haversine { travel_speed: 40 km/h }
TravelSpeedKph == 40

\* The app's Haversine estimator: the great-circle distance covered at
\* travel_speed, in seconds.
HaversineCostEstimate(src, dst) ==
    LET meters == CoordDistance(src.coordinate, dst.coordinate, "meters") \div Scale
    IN (meters * TimeUnitsPerHour("seconds")) \div TravelSpeedKph

----------------------------------------------------------------------------
\* Frontier model.

\* TruckRestriction::valid(truck_parameters): a weight limit is met.
RestrictionValid(restriction, truck_parameters) ==
    truck_parameters.weight <= restriction.max_weight

\* A frontier model that admits an edge as soon as one of its restrictions
\* is met.
ValidFrontierAnyMet(model, edge) ==
    IF edge.edge_id \notin DOMAIN model.lookup THEN TRUE
    ELSE \E i \in 1..Len(model.lookup[edge.edge_id]) :
            RestrictionValid(model.lookup[edge.edge_id][i], model.truck_parameters)

\* A frontier model that admits every edge.
ValidFrontierAlways(model, edge) == TRUE

\* TruckRestrictionFrontierModel::valid_frontier
ValidFrontier(model, edge) ==
    IF edge.edge_id \notin DOMAIN model.lookup THEN TRUE
    ELSE \A i \in 1..Len(model.lookup[edge.edge_id]) :
            RestrictionValid(model.lookup[edge.edge_id][i], model.truck_parameters)

----------------------------------------------------------------------------
\* The A* engine.

\* Bounds of the searched graphs.
MaxSearchVertices == 3
MaxSearchEdges == 3

SearchStateModel == <<"time">>

TimeOf(state) == state[FeatureIndex(SearchStateModel, "time")]

\* graph.out_edges(v), by ascending edge id.
OutEdges(graph, v) ==
    SelectSeq(graph.edges, LAMBDA e : e.src_vertex_id = v)

\* h(src, dst): the estimate is made on a scratch clone of the state.
Heuristic(hkind, engine, src, dst, state) ==
    IF hkind = "app" THEN [ok |-> TRUE, h |-> HaversineCostEstimate(Vertex(src), Vertex(dst))]
    ELSE LET r == SpeedEstimateTraversal(engine, Vertex(src), Vertex(dst), state,
                                         SearchStateModel)
         IN IF r.result = "Ok" THEN [ok |-> TRUE, h |-> TimeOf(r.state) - TimeOf(state)]
            ELSE [ok |-> FALSE, h |-> 0]

\* The label to pop: minimum f_cost, the oldest among equals.
LastLabel(frontier) ==
    CHOOSE l \in frontier : \A m \in frontier : l.seq >= m.seq

MinLabel(frontier) ==
    CHOOSE l \in frontier :
        \A m \in frontier :
            l.f_cost < m.f_cost \/ (l.f_cost = m.f_cost /\ l.seq <= m.seq)

\* A label is stale when a cheaper one for its vertex was pushed since.
IsStale(label, best_g) ==
    label.vertex_id \in DOMAIN best_g /\ label.g_cost > best_g[label.vertex_id]

\* Steps d.i to d.v for one out-edge of the popped label; acc carries the
\* frontier, best_g, solution and the insertion counter.
Relax(acc, label, edge, env) ==
    IF ~ValidFrontier(env.frontier_model, edge) THEN acc
    ELSE LET t == SpeedTraverseEdge(env.engine, edge, label.state, SearchStateModel)
         IN IF t.result # "Ok" THEN acc
            ELSE LET w == edge.dst_vertex_id
                     access_cost == 0
                     traversal_cost == TimeOf(t.state) - TimeOf(label.state)
                     g == label.g_cost + (access_cost + traversal_cost)
                     h == Heuristic(env.hkind, env.engine, w, env.destination, t.state)
                 IN IF (w \in DOMAIN acc.best_g /\ g >= acc.best_g[w]) \/ ~h.ok THEN acc
                    ELSE [frontier |-> acc.frontier \cup
                             {[vertex_id |-> w, g_cost |-> g, f_cost |-> g + h.h,
                               state |-> t.state, prev_edge_id |-> edge.edge_id,
                               seq |-> acc.seq]},
                          best_g |-> MapInsert(acc.best_g, w, g),
                          solution |-> MapInsert(acc.solution, w,
                             [terminal_vertex |-> w,
                              edge_traversal |->
                                 [edge_id |-> edge.edge_id, access_cost |-> access_cost,
                                  traversal_cost |-> traversal_cost,
                                  result_state |-> t.state]]),
                          seq |-> acc.seq + 1]

RECURSIVE RelaxAll(_, _, _, _)
RelaxAll(acc, label, out, env) ==
    IF out = <<>> THEN acc
    ELSE RelaxAll(Relax(acc, label, Head(out), env), label, Tail(out), env)

\* Reconstruction: the solution is walked from the destination back to the
\* origin; the route lists the edge traversals from the origin on.
RECURSIVE WalkBack(_, _, _, _, _)
WalkBack(graph, solution, origin, v, route) ==
    IF v = origin THEN [ok |-> TRUE, route |-> route]
    ELSE IF v \notin DOMAIN solution \/ Len(route) > Len(graph.edges)
    THEN [ok |-> FALSE, route |-> route]
    ELSE LET et == solution[v].edge_traversal
         IN WalkBack(graph, solution, origin,
                     graph.edges[et.edge_id + 1].src_vertex_id, <<et>> \o route)

SearchSpeeds == {40, 80}

\* The shape of an edge u -> v: its ends and its speed; its distance is the
\* great-circle distance between its ends.
SearchEdgeShapes ==
    {[src |-> u, dst |-> v, speed |-> sp] :
        u \in 0..(MaxSearchVertices - 1), v \in 0..(MaxSearchVertices - 1),
        sp \in SearchSpeeds}

ShapeKey(s) == (s.src * MaxSearchVertices + s.dst) * 100 + s.speed

\* Edge lists of up to n edges, up to renaming of the edge ids: distinct
\* shapes in key order (parallel edges differ in speed).
RECURSIVE SortedEdgeLists(_)
SortedEdgeLists(n) ==
    IF n = 0 THEN {<<>>}
    ELSE LET shorter == SortedEdgeLists(n - 1)
         IN shorter \cup
            {Append(l, s) : <<l, s>> \in
                {p \in {t \in shorter : Len(t) = n - 1} \X
                        {s \in SearchEdgeShapes : s.src # s.dst} :
                    Len(p[1]) = 0 \/ ShapeKey(p[1][Len(p[1])]) < ShapeKey(p[2])}}

SearchEdgeLists == SortedEdgeLists(MaxSearchEdges) \ {<<>>}

GraphOf(l) ==
    [n_vertices |-> MaxSearchVertices,
     edges |-> [i \in 1..Len(l) |->
                  Edge(i - 1, l[i].src, l[i].dst,
                       Abs(l[i].src - l[i].dst) * MetersPerStep)]]

NoRestrictions == [lookup |-> EmptyMap, truck_parameters |-> [weight |-> 10]]

FrontierModels ==
    {NoRestrictions,
     [lookup |-> MapInsert(EmptyMap, 1, <<[max_weight |-> 20], [max_weight |-> 5]>>),
      truck_parameters |-> [weight |-> 10]]}

\* The search app after construction: graph and models are built, no query
\* has been asked.
SearchAppNew(l, hkind, frontier_model) ==
    /\ sr_graph = GraphOf(l)
    /\ sr_engine = SpeedTraversalEngine([i \in 1..Len(l) |-> l[i].speed],
                                        "meters", "seconds")
    /\ sr_hkind = hkind
    /\ sr_frontier_model = frontier_model
    /\ sr_origin = 0
    /\ sr_destination = 0
    /\ sr_frontier = {}
    /\ sr_seq = 0
    /\ sr_best_g = EmptyMap
    /\ sr_solution = EmptyMap
    /\ sr_status = "idle"
    /\ sr_route = <<>>

SearchInit ==
    \E l \in SearchEdgeLists, hkind \in {"model", "app"},
       frontier_model \in FrontierModels :
        SearchAppNew(l, hkind, frontier_model)

\* Step 1 for the query (origin, destination): the origin's label is pushed
\* on a fresh frontier.
AStarPush(origin, destination) ==
    /\ sr_status = "idle"
    /\ LET state == StateModelInitialState(SearchStateModel)
           h == Heuristic(sr_hkind, sr_engine, origin, destination, state)
       IN /\ sr_origin' = origin
          /\ sr_destination' = destination
          /\ sr_frontier' = {[vertex_id |-> origin, g_cost |-> 0, f_cost |-> h.h,
                              state |-> state, prev_edge_id |-> 0 - 1, seq |-> 0]}
    /\ sr_seq' = 1
    /\ sr_best_g' = EmptyMap
    /\ sr_solution' = EmptyMap
    /\ sr_route' = <<>>
    /\ sr_status' = "running"
    /\ UNCHANGED <<sr_graph, sr_engine, sr_hkind, sr_frontier_model>>

\* A search is started for some query between two vertices.
AStarStart ==
    /\ \E origin \in 0..(sr_graph.n_vertices - 1),
          destination \in 0..(sr_graph.n_vertices - 1) :
         AStarPush(origin, destination)
    /\ UNCHANGED nonSearch

\* Step 2: one pass of the loop. The minimum label is popped; the
\* destination ends the search, a stale label is dropped, any other label
\* has its out-edges relaxed.
AStarStep ==
    /\ sr_status = "running"
    /\ sr_frontier # {}
    /\ LET label == MinLabel(sr_frontier)
           rest == sr_frontier \ {label}
       IN IF label.vertex_id = sr_destination
          THEN LET r == WalkBack(sr_graph, sr_solution, sr_origin, sr_destination, <<>>)
               IN /\ sr_status' = IF r.ok THEN "found" ELSE "ReconstructionMissingVertex"
                  /\ sr_route' = IF r.ok THEN r.route ELSE <<>>
                  /\ sr_frontier' = rest
                  /\ UNCHANGED <<sr_seq, sr_best_g, sr_solution>>
          ELSE IF IsStale(label, sr_best_g)
          THEN /\ sr_frontier' = rest
               /\ UNCHANGED <<sr_seq, sr_best_g, sr_solution, sr_status, sr_route>>
          ELSE LET acc == RelaxAll([frontier |-> rest, best_g |-> sr_best_g,
                                    solution |-> sr_solution, seq |-> sr_seq],
                                   label, OutEdges(sr_graph, label.vertex_id),
                                   [frontier_model |-> sr_frontier_model,
                                    engine |-> sr_engine, hkind |-> sr_hkind,
                                    destination |-> sr_destination])
               IN /\ sr_frontier' = acc.frontier
                  /\ sr_best_g' = acc.best_g
                  /\ sr_solution' = acc.solution
                  /\ sr_seq' = acc.seq
                  /\ UNCHANGED <<sr_status, sr_route>>
    /\ UNCHANGED <<sr_graph, sr_engine, sr_hkind, sr_frontier_model,
                   sr_origin, sr_destination>>
    /\ UNCHANGED nonSearch

\* Step 3: the frontier is empty and the destination was not popped.
AStarExhausted ==
    /\ sr_status = "running"
    /\ sr_frontier = {}
    /\ sr_status' = "NoPathExists"
    /\ UNCHANGED <<sr_graph, sr_engine, sr_hkind, sr_frontier_model,
                   sr_origin, sr_destination, sr_frontier, sr_seq, sr_best_g,
                   sr_solution, sr_route>>
    /\ UNCHANGED nonSearch

\* main: the total of a result's route, edge_cost() summed over the route.
RECURSIVE RouteTotalCost(_)
RouteTotalCost(route) ==
    IF route = <<>> THEN 0
    ELSE (route[1].access_cost + route[1].traversal_cost) + RouteTotalCost(Tail(route))

\* No search is running.
SearchOff ==
    /\ sr_graph = [n_vertices |-> 0, edges |-> <<>>]
    /\ sr_engine = NoEngine
    /\ sr_hkind = "off"
    /\ sr_frontier_model = NoRestrictions
    /\ sr_origin = 0
    /\ sr_destination = 0
    /\ sr_frontier = {}
    /\ sr_seq = 0
    /\ sr_best_g = EmptyMap
    /\ sr_solution = EmptyMap
    /\ sr_status = "off"
    /\ sr_route = <<>>

----------------------------------------------------------------------------
\* The search app's batch: run_edge_oriented answers the queries, main
\* reports the results.

\* Bounds of the batch model.
MaxBatch == 2

\* The queries main builds are pairs of edge ids of the graph.
BatchesOver(l) ==
    UNION {[1..n -> (0..(Len(l) - 1)) \X (0..(Len(l) - 1))] : n \in 1..MaxBatch}

\* main up to the call of run_edge_oriented: the app is wired with the
\* speed-table traversal model and the Haversine estimator, and the batch is
\* built.
BatchInit ==
    /\ \E l \in SearchEdgeLists :
         /\ SearchAppNew(l, "app", NoRestrictions)
         /\ queries \in BatchesOver(l)
    /\ query_pos = 0
    /\ query_results = <<>>
    /\ results = "none"
    /\ app_log = <<>>
    /\ app_status = "searching"

SearchEnded == sr_status \in {"found", "NoPathExists", "ReconstructionMissingVertex"}

\* The edge-oriented variant: the search for the query (origin edge,
\* destination edge) runs from the origin edge's destination vertex to the
\* destination edge's source vertex.
RunQueryStart ==
    /\ app_status = "searching"
    /\ query_pos < Len(queries)
    /\ LET q == queries[query_pos + 1]
       IN /\ q[1] # q[2]
          /\ AStarPush(sr_graph.edges[q[1] + 1].dst_vertex_id,
                       sr_graph.edges[q[2] + 1].src_vertex_id)
    /\ UNCHANGED nonSearch

\* An empty query, origin equal to destination, yields an empty route
\* without error and without a search.
RunQueryEmpty ==
    /\ app_status = "searching"
    /\ sr_status = "idle"
    /\ query_pos < Len(queries)
    /\ LET q == queries[query_pos + 1]
       IN /\ q[1] = q[2]
          /\ query_results' = Append(query_results,
                [ok |-> TRUE, origin |-> q[1], destination |-> q[2], route |-> <<>>])
    /\ query_pos' = query_pos + 1
    /\ UNCHANGED <<queries, results, app_log, app_status>>
    /\ UNCHANGED srvars
    /\ UNCHANGED nonSearchApp

\* The query's search has ended: its outcome is the query's result, a
\* SearchResult {origin, destination, route} or the search's error.
RunQueryEnd ==
    /\ app_status = "searching"
    /\ SearchEnded
    /\ LET q == queries[query_pos + 1]
       IN query_results' = Append(query_results,
              IF sr_status = "found"
              THEN [ok |-> TRUE, origin |-> q[1], destination |-> q[2],
                    route |-> sr_route]
              ELSE [ok |-> FALSE, error |-> sr_status])
    /\ query_pos' = query_pos + 1
    /\ sr_origin' = 0
    /\ sr_destination' = 0
    /\ sr_frontier' = {}
    /\ sr_seq' = 0
    /\ sr_best_g' = EmptyMap
    /\ sr_solution' = EmptyMap
    /\ sr_route' = <<>>
    /\ sr_status' = "idle"
    /\ UNCHANGED <<sr_graph, sr_engine, sr_hkind, sr_frontier_model>>
    /\ UNCHANGED <<queries, results, app_log, app_status>>
    /\ UNCHANGED nonSearchApp

RECURSIVE FirstError(_)
FirstError(rs) ==
    IF ~rs[1].ok THEN rs[1].error ELSE FirstError(Tail(rs))

\* run_edge_oriented returns a Result over the vector of SearchResults: a
\* SearchResult holds a route, so the error of a query is the Err of the
\* whole batch.
RunEdgeOrientedReturn ==
    /\ app_status = "searching"
    /\ sr_status = "idle"
    /\ query_pos = Len(queries)
    /\ results' =
          IF \E i \in 1..Len(query_results) : ~query_results[i].ok
          THEN [ok |-> FALSE, error |-> FirstError(query_results)]
          ELSE [ok |-> TRUE, results |-> query_results]
    /\ app_status' = "reporting"
    /\ UNCHANGED <<queries, query_pos, query_results, app_log>>
    /\ UNCHANGED srvars
    /\ UNCHANGED nonSearchApp

\* main after the call: `?` ends main with the batch's error; otherwise one
\* line is logged per result, with the links and the total time of its route.
MainReport ==
    /\ app_status = "reporting"
    /\ IF results.ok
       THEN /\ app_log' = [i \in 1..Len(results.results) |->
                              [origin |-> results.results[i].origin,
                               destination |-> results.results[i].destination,
                               links |-> Len(results.results[i].route),
                               time_secs |-> RouteTotalCost(results.results[i].route)]]
            /\ app_status' = "Ok"
       ELSE /\ app_log' = app_log
            /\ app_status' = "Err"
    /\ UNCHANGED <<queries, query_pos, query_results, results>>
    /\ UNCHANGED srvars
    /\ UNCHANGED nonSearchApp

\* No batch is running.
BatchOff ==
    /\ queries = <<>>
    /\ query_pos = 0
    /\ query_results = <<>>
    /\ results = "none"
    /\ app_log = <<>>
    /\ app_status = "off"

----------------------------------------------------------------------------
\* The frontier model called on its own.

\* Bounds of the frontier model's inputs.
MaxRestrictions == 2
MaxRestrictedEdgeId == 1

TruckRestrictions == {[max_weight |-> 5], [max_weight |-> 20]}

\* truck_restriction_lookup: zero or more restrictions for some edge ids.
RestrictionLookups ==
    UNION {[ids -> SeqsUpTo(TruckRestrictions, MaxRestrictions)] :
             ids \in SUBSET (0..MaxRestrictedEdgeId)}

\* The frontier model as built: a lookup and the truck's parameters.
FrontierInit ==
    /\ fm_model \in {[lookup |-> l, truck_parameters |-> [weight |-> w]] :
                       l \in RestrictionLookups, w \in {10, 30}}
    /\ fm_edge = EdgeDefault
    /\ fm_state = <<>>
    /\ fm_previous_edge = [some |-> FALSE]
    /\ fm_result = [returned |-> FALSE]

\* The search asks whether an edge may enter the frontier, from some
\* traversal state and after some previous edge; every branch of
\* valid_frontier returns Ok.
ValidFrontierCall ==
    /\ \E edge \in {Edge(id, 0, 1, 100) : id \in 0..MaxRestrictedEdgeId},
          state \in {<<0>>, <<36000>>},
          previous_edge \in {[some |-> FALSE],
                             [some |-> TRUE, edge |-> Edge(0, 1, 0, 100)]} :
         /\ fm_edge' = edge
         /\ fm_state' = state
         /\ fm_previous_edge' = previous_edge
         /\ fm_result' = [returned |-> TRUE, ok |-> TRUE,
                           value |-> ValidFrontier(fm_model, edge)]
    /\ UNCHANGED fm_model
    /\ UNCHANGED nonFrontier

\* No frontier model call is made.
FrontierOff ==
    /\ fm_model = NoRestrictions
    /\ fm_edge = EdgeDefault
    /\ fm_state = <<>>
    /\ fm_previous_edge = [some |-> FALSE]
    /\ fm_result = [returned |-> FALSE]

----------------------------------------------------------------------------
\* The graph configuration: file sizes and the readers of the edge list.

\* Bounds of the configuration model.
MaxDeclared == 2
MaxLines == 3

\* usize arithmetic wraps on the machine word; the model keeps the
\* wrap-around on a word of UsizeBits bits.
UsizeBits == 16
UsizeModulus == 2 ^ UsizeBits

\* File names are sequences of characters.
PlainName == <<"e", ".", "c", "s", "v">>
GzName == <<"e", ".", "c", "s", "v", ".", "g", "z">>
GzSuffix == <<".", "g", "z">>

\* str::ends_with
EndsWith(name, suffix) ==
    /\ Len(name) >= Len(suffix)
    /\ SubSeq(name, Len(name) - Len(suffix) + 1, Len(name)) = suffix

\* Option<usize>
None == [some |-> FALSE]
Some(n) == [some |-> TRUE, n |-> n]

\* line_count(file, is_gzip): the number of lines of the file, the header
\* line included.
LineCount(lines, is_gzip) == lines

\* get_n_edges / get_n_vertices: the declared size, or the line count
\* less the header line. `n - 1` on usize with n = 0 panics where overflow
\* checks are on and wraps where they are off.
GetN(declared, name, lines, build) ==
    IF declared.some THEN [kind |-> "Ok", n |-> declared.n]
    ELSE LET is_gzip == EndsWith(name, GzSuffix)
             n == LineCount(lines, is_gzip)
         IN IF n - 1 < 0 /\ build = "debug" THEN [kind |-> "panic"]
            ELSE [kind |-> "Ok", n |-> (n - 1) % UsizeModulus]

\* read_file_sizes: both sizes are taken, then each is tested.
ReadFileSizesResult(edges_n, vertices_n) ==
    IF edges_n.kind = "panic" \/ vertices_n.kind = "panic"
    THEN [returned |-> TRUE, kind |-> "panic"]
    ELSE IF edges_n.n < 1
    THEN [returned |-> TRUE, kind |-> "EmptyFileSource", filename |-> cf_edge_list_csv]
    ELSE IF vertices_n.n < 1
    THEN [returned |-> TRUE, kind |-> "EmptyFileSource", filename |-> cf_vertex_list_csv]
    ELSE [returned |-> TRUE, kind |-> "Ok", n_edges |-> edges_n.n,
          n_vertices |-> vertices_n.n]

\* The configuration as read and the files as they are on disk.
ConfigInit ==
    /\ cf_edge_list_csv \in {PlainName, GzName}
    /\ cf_vertex_list_csv \in {PlainName, GzName}
    /\ cf_n_edges \in {None} \cup {Some(n) : n \in 0..MaxDeclared}
    /\ cf_n_vertices \in {None} \cup {Some(n) : n \in 0..MaxDeclared}
    /\ cf_edge_lines \in 0..MaxLines
    /\ cf_vertex_lines \in 0..MaxLines
    /\ cf_build \in {"debug", "release"}
    /\ cf_sizes = [returned |-> FALSE]
    /\ cf_count_decoder = "none"
    /\ cf_load_decoder = "none"

\* read_file_sizes is called; an undeclared edge list is counted, as gzip
\* or as plain text by its name.
ReadFileSizes ==
    /\ ~cf_sizes.returned
    /\ cf_sizes' = ReadFileSizesResult(
                       GetN(cf_n_edges, cf_edge_list_csv, cf_edge_lines, cf_build),
                       GetN(cf_n_vertices, cf_vertex_list_csv, cf_vertex_lines, cf_build))
    /\ cf_count_decoder' =
          IF cf_n_edges.some THEN "none"
          ELSE IF EndsWith(cf_edge_list_csv, GzSuffix) THEN "gzip" ELSE "plain"
    /\ UNCHANGED <<cf_edge_list_csv, cf_vertex_list_csv, cf_n_edges, cf_n_vertices,
                   cf_edge_lines, cf_vertex_lines, cf_build, cf_load_decoder>>
    /\ UNCHANGED nonConfig

\* TomTomEdgeList::try_from opens the edge list with the sizes found: the
\* reader is built over a GzDecoder.
TomTomOpenEdgeList ==
    /\ cf_sizes.returned
    /\ cf_sizes.kind = "Ok"
    /\ cf_load_decoder = "none"
    /\ cf_load_decoder' = "gzip"
    /\ UNCHANGED <<cf_edge_list_csv, cf_vertex_list_csv, cf_n_edges, cf_n_vertices,
                   cf_edge_lines, cf_vertex_lines, cf_build, cf_sizes,
                   cf_count_decoder>>
    /\ UNCHANGED nonConfig

\* No configuration is read.
ConfigOff ==
    /\ cf_edge_list_csv = <<>>
    /\ cf_vertex_list_csv = <<>>
    /\ cf_n_edges = None
    /\ cf_n_vertices = None
    /\ cf_edge_lines = 0
    /\ cf_vertex_lines = 0
    /\ cf_build = "off"
    /\ cf_sizes = [returned |-> FALSE]
    /\ cf_count_decoder = "none"
    /\ cf_load_decoder = "none"

----------------------------------------------------------------------------
\* The turn angle between two edge headings.

\* Headings are whole degrees from 0 to MaxHeading.
MaxHeading == 359

\* EdgeHeading: the heading an edge starts with and the one it ends with.
EdgeHeading(start_heading, end_heading) ==
    [start_heading |-> start_heading, end_heading |-> end_heading]

\* The `%` of Rust's integers: the remainder of the division that truncates
\* toward zero, so it has the sign of the dividend.
RustRem(x, m) ==
    IF x >= 0 THEN x % m ELSE 0 - ((0 - x) % m)

\* compute_headings_angle; no intermediate value leaves the i16 range for
\* headings of whole degrees.
ComputeHeadingsAngle(a, b) ==
    RustRem(b.start_heading - a.end_heading + 180, 360) - 180

\* Two edge headings are at hand.
HeadingInit ==
    /\ hd_a \in {EdgeHeading(0, h) : h \in 0..MaxHeading}
    /\ hd_b \in {EdgeHeading(h, 0) : h \in 0..MaxHeading}
    /\ hd_angle = [returned |-> FALSE]

\* The turn angle from a to b is computed.
ComputeHeadingsAngleCall ==
    /\ ~hd_angle.returned
    /\ hd_angle' = [returned |-> TRUE, angle |-> ComputeHeadingsAngle(hd_a, hd_b)]
    /\ UNCHANGED <<hd_a, hd_b>>
    /\ UNCHANGED nonHeading

\* No angle is asked for.
HeadingOff ==
    /\ hd_a = EdgeHeading(0, 0)
    /\ hd_b = EdgeHeading(0, 0)
    /\ hd_angle = [returned |-> FALSE]

\* The parts the specifications of the graph, the traversal models, the
\* search and the batch do not drive.
OthersOff == FrontierOff /\ ConfigOff /\ HeadingOff

----------------------------------------------------------------------------
\* Graph construction alone: an edge table is read by one of the two loaders.
Init == LoaderInit /\ TravOff /\ SearchOff /\ BatchOff /\ OthersOff

Next ==
    \/ TomTomReadRow
    \/ TomTomFinish
    \/ EdgeLoaderReadRow
    \/ EdgeLoaderFinish

Spec == Init /\ [][Next]_vars

\* The traversal models alone: a chain of traversals from a start state.
TravSpecInit == LoaderOff /\ TravInit /\ SearchOff /\ BatchOff /\ OthersOff

TravNext ==
    \/ DistanceTraversalCostCall
    \/ SpeedTraverseEdgeCall

TravSpec == TravSpecInit /\ [][TravNext]_vars

\* One search: the loop runs until it ends, so a step that can be taken is
\* taken.
SearchSpecInit == LoaderOff /\ TravOff /\ SearchInit /\ BatchOff /\ OthersOff

SearchLoop ==
    \/ AStarStep
    \/ AStarExhausted

SearchNext ==
    \/ AStarStart
    \/ AStarStep
    \/ AStarExhausted

SearchSpec == SearchSpecInit /\ [][SearchNext]_vars /\ WF_vars(SearchLoop)

\* One run of main: the batch is answered query by query and reported.
BatchSpecInit == LoaderOff /\ TravOff /\ BatchInit /\ OthersOff

BatchNext ==
    \/ RunQueryStart
    \/ RunQueryEmpty
    \/ AStarStep
    \/ AStarExhausted
    \/ RunQueryEnd
    \/ RunEdgeOrientedReturn
    \/ MainReport

BatchSpec == BatchSpecInit /\ [][BatchNext]_vars

\* The frontier model alone: it is asked about edges, again and again.
FrontierSpecInit ==
    LoaderOff /\ TravOff /\ SearchOff /\ BatchOff /\ FrontierInit /\ ConfigOff /\ HeadingOff

FrontierNext == ValidFrontierCall

FrontierSpec == FrontierSpecInit /\ [][FrontierNext]_vars

\* The graph configuration alone: the sizes are read, then the edge list is
\* opened for loading.
ConfigSpecInit ==
    LoaderOff /\ TravOff /\ SearchOff /\ BatchOff /\ FrontierOff /\ ConfigInit /\ HeadingOff

ConfigNext ==
    \/ ReadFileSizes
    \/ TomTomOpenEdgeList

ConfigSpec == ConfigSpecInit /\ [][ConfigNext]_vars

\* The turn angle alone, for every pair of headings.
HeadingSpecInit ==
    LoaderOff /\ TravOff /\ SearchOff /\ BatchOff /\ FrontierOff /\ ConfigOff /\ HeadingInit

HeadingNext == ComputeHeadingsAngleCall

HeadingSpec == HeadingSpecInit /\ [][HeadingNext]_vars

----------------------------------------------------------------------------
\* Properties of the graph construction (under Spec).

\* The vertex id is an index of the adjacency vectors.
ValidVertex(v) == v < n_vertices

\* C4: after a successful construction, every edge e of the edges sequence
\* has adj[e.src][e.edge_id] = e.dst and rev[e.dst][e.edge_id] = e.src, for
\* every edge table and every declared n_edges.
C4_AdjacencyMatchesEdges ==
    ld_status = "ok" =>
        \A i \in 1..Len(edges) :
            LET e == edges[i]
            IN /\ ValidVertex(e.src_vertex_id)
               /\ ValidVertex(e.dst_vertex_id)
               /\ e.edge_id \in DOMAIN adj[e.src_vertex_id + 1]
               /\ adj[e.src_vertex_id + 1][e.edge_id] = e.dst_vertex_id
               /\ e.edge_id \in DOMAIN rev[e.dst_vertex_id + 1]
               /\ rev[e.dst_vertex_id + 1][e.edge_id] = e.src_vertex_id

\* C5: a construction whose edge table holds an edge with a source or a
\* destination that is no vertex index never succeeds, and no graph holding
\* such an edge is returned.
C5_MissingVertexFailsConstruction ==
    ld_status = "ok" =>
        /\ \A i \in 1..Len(rows) :
              ValidVertex(rows[i].src_vertex_id) /\ ValidVertex(rows[i].dst_vertex_id)
        /\ \A i \in 1..Len(edges) :
              ValidVertex(edges[i].src_vertex_id) /\ ValidVertex(edges[i].dst_vertex_id)

\* C6: after a successful construction edges[i].edge_id = i for every index
\* of the edges sequence, whatever the row order and the declared n_edges.
C6_EdgeIdIsIndex ==
    ld_status = "ok" => \A i \in 1..Len(edges) : edges[i].edge_id = i - 1

----------------------------------------------------------------------------
\* Properties of the traversal models (under TravSpec).

RECURSIVE SumSeq(_)
SumSeq(s) == IF s = <<>> THEN 0 ELSE s[1] + SumSeq(Tail(s))

RECURSIVE SumDistances(_)
SumDistances(path) ==
    IF path = <<>> THEN 0 ELSE path[1].distance + SumDistances(Tail(path))

\* C8: a traversal whose incremental cost would be negative is reported as
\* the error NegativeCost; no traversal succeeds with a negative cost or
\* with a state component lower than before.
C8_NegativeCostIsError ==
    tm_result # "none" =>
        /\ tm_edge.distance < 0 => tm_result = "NegativeCost"
        /\ tm_result = "Ok" =>
              /\ tm_costs[Len(tm_costs)] >= 0
              /\ \A i \in 1..Len(tm_state) : tm_state[i] >= tm_input[i]

\* C9: under the distance model the costs returned along a chain of
\* traversals from the initial state sum to the edges' distances in the
\* model's unit, and to state component 0; a traversal changes component 0
\* only, by the cost it returns.
C9_DistanceCostIsSumOfDistances ==
    tm_kind = "distance" =>
        /\ Len(tm_costs) = Len(tm_path)
        /\ SumSeq(tm_costs) =
              DistanceConvert(BASE_DISTANCE_UNIT, SumDistances(tm_path) * Scale,
                              tm_engine.distance_unit)
        /\ tm_state[1] = tm_start[1] + SumSeq(tm_costs)
        /\ tm_start = DistanceInitialState => tm_state[1] = SumSeq(tm_costs)
        /\ Len(tm_state) = Len(tm_start)
        /\ \A i \in 2..Len(tm_state) : tm_state[i] = tm_start[i]
        /\ tm_result = "Ok" =>
              tm_state = [tm_input EXCEPT ![1] = tm_input[1] + tm_costs[Len(tm_costs)]]

C9_Witness ==
    /\ tm_kind = "distance"
    /\ tm_engine.distance_unit = "kilometers"
    /\ Len(tm_path) >= 2
    /\ tm_path[1].distance = 100
    /\ tm_path[2].distance = 200
    /\ tm_state = <<300, 7000>>

\* The time the claim gives for one edge: distance / speed_table[edge_id],
\* in the configured time unit. t is that time when t * speed is the
\* distance in kilometers times the time units of an hour.
IsEdgeTime(t, engine, edge) ==
    t * engine.speed_table[edge.edge_id + 1] =
        edge.distance * TimeUnitsPerHour(engine.time_unit)

\* C10: under the speed-table model a successful traverse_edge adds
\* distance / speed_table[edge_id], in the configured time unit, to the
\* "time" feature and changes nothing else, so the accumulated time is the
\* sum over the traversed edges; 100 m at 10 km/h adds 36 in seconds and
\* 36000 in milliseconds.
C10_SpeedTimeIsDistanceOverSpeed ==
    tm_kind = "speed" =>
        LET time == FeatureIndex(tm_state_model, "time")
        IN /\ Len(tm_costs) = Len(tm_path)
           /\ \A i \in 1..Len(tm_path) : IsEdgeTime(tm_costs[i], tm_engine, tm_path[i])
           /\ tm_state[time] = tm_start[time] + SumSeq(tm_costs)
           /\ \A i \in 1..Len(tm_state) : i # time => tm_state[i] = tm_start[i]
           /\ tm_result = "Ok" =>
                 /\ tm_state = [tm_input EXCEPT
                                   ![time] = tm_input[time] + tm_costs[Len(tm_costs)]]
                 /\ (/\ tm_edge.distance = 100
                     /\ tm_engine.speed_table[tm_edge.edge_id + 1] = 10) =>
                        tm_state[time] - tm_input[time] =
                            IF tm_engine.time_unit = "seconds"
                            THEN 36 * Scale ELSE 36000 * Scale

C10_Witness ==
    /\ tm_kind = "speed"
    /\ tm_engine.time_unit = "milliseconds"
    /\ tm_engine.speed_table = <<20, 10>>
    /\ Len(tm_path) >= 2
    /\ tm_path[1] = Edge(1, 0, 1, 100)
    /\ tm_path[2] = Edge(0, 0, 1, 200)
    /\ tm_result = "Ok"
    /\ tm_state = <<0, 72000 * Scale>>

----------------------------------------------------------------------------
\* Properties of the search (under SearchSpec).

\* The frontier model admits the edge: every restriction registered for it
\* is met by the truck.
EdgeAdmitted(e) ==
    LET lookup == sr_frontier_model.lookup
    IN e.edge_id \in DOMAIN lookup =>
          \A i \in 1..Len(lookup[e.edge_id]) :
              sr_frontier_model.truck_parameters.weight <= lookup[e.edge_id][i].max_weight

AdmittedEdges == {sr_graph.edges[i] : i \in {j \in 1..Len(sr_graph.edges) :
                                                EdgeAdmitted(sr_graph.edges[j])}}

\* The cost of an edge under the active traversal model: its time.
TrueEdgeCost(e) ==
    TimeOf(SpeedTraverseEdge(sr_engine, e, StateModelInitialState(SearchStateModel),
                             SearchStateModel).state)

NoCost == 0 - 1

MinCost(S) == IF S = {} THEN NoCost ELSE CHOOSE x \in S : \A y \in S : x <= y

\* One round of Bellman-Ford towards the destination: the entries for
\* vertices v, v + 1, ... of the costs after the round, d being the costs
\* before it (entry u + 1 is vertex u's).
RECURSIVE RelaxedCosts(_, _)
RelaxedCosts(d, v) ==
    IF v >= Len(d) THEN <<>>
    ELSE <<MinCost(({d[v + 1]} \ {NoCost}) \cup
                   {TrueEdgeCost(e) + d[e.dst_vertex_id + 1] :
                       e \in {x \in AdmittedEdges : /\ x.src_vertex_id = v
                                                    /\ d[x.dst_vertex_id + 1] # NoCost}})>>
         \o RelaxedCosts(d, v + 1)

RECURSIVE ZeroAt(_, _, _)
ZeroAt(dst, v, n) ==
    IF v >= n THEN <<>> ELSE <<IF v = dst THEN 0 ELSE NoCost>> \o ZeroAt(dst, v + 1, n)

\* Least costs to dst over paths of at most k admitted edges.
RECURSIVE CostsTo(_, _)
CostsTo(dst, k) ==
    IF k = 0 THEN ZeroAt(dst, 0, sr_graph.n_vertices)
    ELSE RelaxedCosts(CostsTo(dst, k - 1), 0)

\* The least cost of a path of admitted edges from u to v, NoCost without one.
LeastCost(u, v) == CostsTo(v, sr_graph.n_vertices - 1)[u + 1]

Reachable(u, v) == LeastCost(u, v) # NoCost

\* The estimate the search uses for vertex u.
EstimateToDestination(u) ==
    Heuristic(sr_hkind, sr_engine, u, sr_destination,
              StateModelInitialState(SearchStateModel)).h

\* d holds the least costs to the destination.
AdmissibleUnder(d) ==
    \A u \in 0..(Len(d) - 1) : d[u + 1] # NoCost => EstimateToDestination(u) <= d[u + 1]

AdmissibleHeuristic == AdmissibleUnder(CostsTo(sr_destination, sr_graph.n_vertices - 1))

RouteEdge(route, i) == sr_graph.edges[route[i].edge_id + 1]

RouteIsPath(route, origin, destination) ==
    IF route = <<>> THEN origin = destination
    ELSE /\ RouteEdge(route, 1).src_vertex_id = origin
         /\ RouteEdge(route, Len(route)).dst_vertex_id = destination
         /\ \A i \in 1..(Len(route) - 1) :
               RouteEdge(route, i).dst_vertex_id = RouteEdge(route, i + 1).src_vertex_id

\* C1: a route the search returns is a path from the origin to the
\* destination and, when the heuristic is admissible, its total cost is no
\* greater than that of any path of admitted edges.
C1_RouteIsLeastCostPath ==
    sr_status = "found" =>
        LET d == CostsTo(sr_destination, sr_graph.n_vertices - 1)
        IN /\ RouteIsPath(sr_route, sr_origin, sr_destination)
           /\ d[sr_origin + 1] # NoCost
           /\ AdmissibleUnder(d) => RouteTotalCost(sr_route) <= d[sr_origin + 1]

\* A two-edge route found although a direct, costlier edge exists.
C1_Witness ==
    /\ sr_status = "found"
    /\ AdmissibleHeuristic
    /\ Len(sr_route) = 2
    /\ \E e \in AdmittedEdges :
          /\ e.src_vertex_id = sr_origin
          /\ e.dst_vertex_id = sr_destination
          /\ TrueEdgeCost(e) > RouteTotalCost(sr_route)

\* The measure of the loop, in lexicographic order: the vertices without a
\* g-cost yet, the total of the best known g-costs, the open labels.
Unlabelled(best_g) == sr_graph.n_vertices - Cardinality(DOMAIN best_g)

BestGTotal(best_g) ==
    SumSeq([i \in 1..sr_graph.n_vertices |->
              IF (i - 1) \in DOMAIN best_g THEN best_g[i - 1] ELSE 0])

MeasureFalls(best_g, frontier, best_g2, frontier2) ==
    \/ Unlabelled(best_g2) < Unlabelled(best_g)
    \/ /\ Unlabelled(best_g2) = Unlabelled(best_g)
       /\ \/ BestGTotal(best_g2) < BestGTotal(best_g)
          \/ /\ BestGTotal(best_g2) = BestGTotal(best_g)
             /\ Cardinality(frontier2) < Cardinality(frontier)

\* C2: the search ends: every pass of the loop that leaves it running lowers
\* the measure (vertices without a g-cost, best_g total, open labels), which
\* cannot fall for ever as no g-cost is negative; it ends with NoPathExists
\* exactly when the frontier emptied without the destination popped, which
\* is when no path of admitted edges leads from the origin to the
\* destination.
C2_TerminatesNoPathIffUnreachable ==
    /\ [][(sr_status = "running" /\ sr_status' = "running") =>
            MeasureFalls(sr_best_g, sr_frontier, sr_best_g', sr_frontier')]_vars
    /\ [](\A v \in DOMAIN sr_best_g : sr_best_g[v] >= 0)
    /\ [](sr_status \in {"found", "NoPathExists", "ReconstructionMissingVertex"} =>
            /\ sr_status = "NoPathExists" <=> ~Reachable(sr_origin, sr_destination)
            /\ sr_status = "NoPathExists" => sr_frontier = {})

\* The search gave up after expanding labels, the restricted edge being the
\* only way on.
C2_Witness ==
    /\ sr_status = "NoPathExists"
    /\ sr_seq > 1
    /\ Len(sr_graph.edges) >= 2
    /\ ~EdgeAdmitted(sr_graph.edges[2])
    /\ sr_graph.edges[2].dst_vertex_id = sr_destination

\* C3: the estimate the search uses never exceeds the true least cost to
\* the destination, for the speed-table model's estimate and for the app's
\* 40 km/h estimator alike.
C3_EstimateIsAdmissible ==
    \A label \in sr_frontier :
        Reachable(label.vertex_id, sr_destination) =>
            label.f_cost - label.g_cost <= LeastCost(label.vertex_id, sr_destination)

----------------------------------------------------------------------------
\* Properties of the batch (under BatchSpec).

\* C7: a query that ends in an error does not abort the batch: main gets a
\* result for every query, a route or an error, in input order, and the
\* routes of the queries that succeeded are among them and are reported.
C7_QueryErrorDoesNotAbortBatch ==
    app_status \in {"Ok", "Err"} =>
        /\ results.ok
        /\ Len(results.results) = Len(queries)
        /\ \A i \in 1..Len(queries) : results.results[i] = query_results[i]
        /\ \A i \in 1..Len(queries) :
              query_results[i].ok =>
                  /\ i \in DOMAIN app_log
                  /\ app_log[i].links = Len(query_results[i].route)

----------------------------------------------------------------------------
\* Properties of the frontier model (under FrontierSpec).

\* Every restriction registered for the edge id is met by the truck; none
\* registered, none broken.
AllRestrictionsMet(model, edge_id) ==
    \A id \in DOMAIN model.lookup :
        id = edge_id =>
            \A i \in DOMAIN model.lookup[id] :
                model.truck_parameters.weight <= model.lookup[id][i].max_weight

\* C11: valid_frontier returns true for an edge exactly when every
\* restriction registered for the edge's id is met by the truck parameters
\* (none registered: true), whatever the traversal state and the previous
\* edge; a rejection is the value false, never an error.
C11_ValidFrontierIffAllRestrictionsMet ==
    fm_result.returned =>
        /\ fm_result.ok
        /\ fm_result.value \in BOOLEAN
        /\ fm_result.value <=> AllRestrictionsMet(fm_model, fm_edge.edge_id)

\* An edge rejected for its second restriction only, asked about from a
\* state later than the initial one and after a previous edge.
C11_Witness ==
    /\ fm_result.returned
    /\ fm_result.ok
    /\ fm_result.value = FALSE
    /\ fm_edge.edge_id \in DOMAIN fm_model.lookup
    /\ Len(fm_model.lookup[fm_edge.edge_id]) = 2
    /\ RestrictionValid(fm_model.lookup[fm_edge.edge_id][1], fm_model.truck_parameters)
    /\ fm_state # <<0>>
    /\ fm_previous_edge.some

----------------------------------------------------------------------------
\* Properties of the graph configuration (under ConfigSpec).

\* The data rows of a source: its declared size, or its lines but the
\* header line.
DataRows(declared, lines) ==
    IF declared.some THEN declared.n
    ELSE IF lines >= 1 THEN lines - 1 ELSE 0

\* C12: read_file_sizes returns a declared size unchanged and otherwise
\* the line count less the header line; for every line count, zero
\* included, it returns EmptyFileSource whenever the edge source or the
\* vertex source has no data row, and never a size that is not the number
\* of data rows.
C12_SizesAreDataRows ==
    cf_sizes.returned =>
        LET edge_rows == DataRows(cf_n_edges, cf_edge_lines)
            vertex_rows == DataRows(cf_n_vertices, cf_vertex_lines)
        IN /\ cf_sizes.kind \in {"Ok", "EmptyFileSource"}
           /\ (edge_rows < 1 \/ vertex_rows < 1) => cf_sizes.kind = "EmptyFileSource"
           /\ cf_sizes.kind = "Ok" =>
                 /\ cf_sizes.n_edges = edge_rows
                 /\ cf_sizes.n_vertices = vertex_rows

\* C13: the edge list is decoded as gzip exactly when its name ends with
\* ".gz", and the counting pass and the loading pass decide alike: a plain
\* .csv edge list is read as plain text by both.
C13_GzipBySuffixInBothPasses ==
    /\ cf_count_decoder # "none" =>
          (cf_count_decoder = "gzip" <=> EndsWith(cf_edge_list_csv, GzSuffix))
    /\ cf_load_decoder # "none" =>
          (cf_load_decoder = "gzip" <=> EndsWith(cf_edge_list_csv, GzSuffix))
    /\ (cf_count_decoder # "none" /\ cf_load_decoder # "none") =>
          cf_count_decoder = cf_load_decoder

----------------------------------------------------------------------------
\* Properties of the speed-table model's errors (under TravSpec).

\* C14: traverse_edge called for an edge whose id is no index of the speed
\* table returns MissingIdInTabularCostFunction, and a call that returns
\* this or any other error leaves the state vector as it was handed in.
C14_ErrorLeavesStateUntouched ==
    (tm_kind = "speed" /\ tm_result # "none") =>
        /\ tm_edge.edge_id >= Len(tm_engine.speed_table) =>
              tm_result = "MissingIdInTabularCostFunction"
        /\ tm_result # "Ok" => tm_state = tm_input

\* The lookup failed on a state an earlier traversal had advanced.
C14_Witness ==
    /\ tm_kind = "speed"
    /\ tm_result = "MissingIdInTabularCostFunction"
    /\ tm_edge.edge_id >= Len(tm_engine.speed_table)
    /\ tm_path # <<>>
    /\ tm_input # tm_start
    /\ tm_state = tm_input

----------------------------------------------------------------------------
\* Properties of the turn angle (under HeadingSpec).

\* C15: for headings of whole degrees in 0..359 compute_headings_angle(a, b)
\* is the signed turn from a.end_heading to b.start_heading normalised
\* into -180..180: a value r with -180 <= r <= 180 that is congruent to
\* b.start_heading - a.end_heading modulo 360.
C15_AngleIsNormalisedTurn ==
    hd_angle.returned =>
        LET r == hd_angle.angle
        IN /\ 0 - 180 <= r
           /\ r <= 180
           /\ (r - (hd_b.start_heading - hd_a.end_heading)) % 360 = 0

====
